---- MODULE Spec2Model ----
(***************************************************************************)
(* State-machine model of the LoRa E32 device mode controller (LoRaE32,   *)
(* src/src/lib/modules/lora/index.ts).  Every asynchronous call is a slot *)
(* that moves from one await point to the next; the UART delivers chunks  *)
(* to the raw receive listeners that the register operations attach.      *)
(* The framed path (send, write, the events of the Data-Link layer) and   *)
(* the Broadcast and Drain built on the controller                        *)
(* (src/unnamed/part_003) are modelled by the effects of each call.       *)
(***************************************************************************)
EXTENDS Integers, Sequences, FiniteSets, TLC

(* ------------------------------ bounds --------------------------------- *)
\* number of asynchronous calls that may be pending at the same time
MaxOps == 2
\* calls the client makes, and events the Data-Link layer emits, in one run
MaxCalls == 2
\* longest chunk one UART 'data' notification carries
MaxChunk == 3
\* bytes of the per-listener arrival log that are kept (the log saturates)
MaxRx == 7
\* bytes that may be waiting on the wire
MaxWire == 7
\* time units one timer step advances
Quantum == 49

(* -------------------------- program constants -------------------------- *)
LOW == 0
HIGH == 1
\* a pin no digitalWrite has reached yet
NotDriven == 2
ConfigLength == 6
VersionLength == 4
SettleDelay == 50
\* declared at the top of the file and read nowhere
TIMEOUT_LIMIT == 1000
ByteRange == 256

NORMAL == "NORMAL"
WAKE_UP == "WAKE_UP"
POWER_SAVING == "POWER_SAVING"
SLEEP == "SLEEP"
Mode == {NORMAL, WAKE_UP, POWER_SAVING, SLEEP}

PACKET_GET_CONFIG == <<193, 193, 193>>
PACKET_RESET == <<196, 196, 196>>
PACKET_GET_VERSION == <<195, 195, 195>>

\* header value a validated configuration register carries
HeaderSentinel == 192

Slots == 1..MaxOps

(* ------------------------------ bit helpers ---------------------------- *)
RECURSIVE BitOr(_, _)
BitOr(a, b) ==
    IF a = 0 THEN b
    ELSE IF b = 0 THEN a
    ELSE (IF (a % 2 = 1) \/ (b % 2 = 1) THEN 1 ELSE 0)
         + 2 * BitOr(a \div 2, b \div 2)

RECURSIVE BitAnd(_, _)
BitAnd(a, b) ==
    IF a = 0 \/ b = 0 THEN 0
    ELSE (IF (a % 2 = 1) /\ (b % 2 = 1) THEN 1 ELSE 0)
         + 2 * BitAnd(a \div 2, b \div 2)

(* ------------------------------ the codec ------------------------------ *)
\* the value of the field `config` before any read: null
NullConfig ==
    [header |-> -1, highAddress |-> -1, lowAddress |-> -1, airRate |-> -1,
     baudRate |-> -1, parityBit |-> -1, channel |-> -1, FEC |-> -1,
     driveMode |-> -1, transmissionMode |-> -1, transmissionPower |-> -1,
     wakeUpTime |-> -1]

\* the value of the field `version` before any read: null
NullVersion == [header |-> -1, model |-> -1, version |-> -1, features |-> -1]

\* Config.from(bytes): the six register bytes unpacked into their bit fields
ConfigFrom(b) ==
    [header |-> b[1], highAddress |-> b[2], lowAddress |-> b[3],
     airRate |-> BitAnd(b[4], 7), baudRate |-> BitAnd(b[4], 56),
     parityBit |-> BitAnd(b[4], 192), channel |-> b[5],
     FEC |-> BitAnd(b[6], 4), driveMode |-> BitAnd(b[6], 64),
     transmissionMode |-> BitAnd(b[6], 128),
     transmissionPower |-> BitAnd(b[6], 3), wakeUpTime |-> BitAnd(b[6], 56)]

\* Config.assert(): TRUE iff the header is the expected sentinel
ConfigAssertOk(c) == c.header = HeaderSentinel

\* new Uint8Array([...]) of setConfig: the six bytes written for `config`
ConfigBytes(c) ==
    << c.header % ByteRange,
       c.highAddress % ByteRange,
       c.lowAddress % ByteRange,
       BitOr(BitOr(c.airRate, c.baudRate), c.parityBit) % ByteRange,
       c.channel % ByteRange,
       BitOr(BitOr(BitOr(BitOr(c.FEC, c.driveMode), c.transmissionMode),
                   c.transmissionPower), c.wakeUpTime) % ByteRange >>

\* the object readVersion builds from its four reply bytes
VersionFrom(b) ==
    [header |-> b[1], model |-> b[2], version |-> b[3], features |-> b[4]]

\* the lookup table with the rows of WAKE_UP and POWER_SAVING exchanged
ModeLevelsSwapped(m) ==
    CASE m = NORMAL -> <<LOW, LOW>>
      [] m = WAKE_UP -> <<LOW, HIGH>>
      [] m = POWER_SAVING -> <<HIGH, LOW>>
      [] m = SLEEP -> <<HIGH, HIGH>>

\* the level pair (M0, M1) setMode looks up for a mode
ModeLevels(m) ==
    CASE m = NORMAL -> <<LOW, LOW>>
      [] m = WAKE_UP -> <<HIGH, LOW>>
      [] m = POWER_SAVING -> <<LOW, HIGH>>
      [] m = SLEEP -> <<HIGH, HIGH>>

(* ------------------------------ the device ---------------------------- *)
\* register images the device may hold: a well-formed one, one with a wrong
\* header, and the one it falls back to when it clamps a written value
GoodFrame == <<192, 0, 1, 26, 23, 68>>
BadFrame == <<27, 0, 1, 26, 23, 68>>
ClampedFrame == <<192, 0, 1, 26, 6, 196>>
VersionFrame == <<195, 69, 13, 20>>

\* configurations a caller passes to setConfig
ArgConfigs == {ConfigFrom(GoodFrame), ConfigFrom(<<194, 18, 52, 29, 23, 71>>)}

\* what the device may answer to the bytes written to it: the full reply, a
\* reply with a byte too many, or nothing at all
DeviceReplies(cmd) ==
    IF cmd = PACKET_GET_CONFIG
    THEN {GoodFrame, BadFrame, GoodFrame \o <<0>>, <<>>}
    ELSE IF cmd = PACKET_GET_VERSION
    THEN {VersionFrame, VersionFrame \o <<0>>, <<>>}
    ELSE IF cmd = PACKET_RESET
    THEN {<<>>}
    ELSE {cmd, ClampedFrame}

(* ------------------------------- state --------------------------------- *)
VARIABLES
    mode,       \* LoRaE32.mode
    m0,         \* level last written to pin M0
    m1,         \* level last written to pin M1
    config,     \* LoRaE32.config
    version,    \* LoRaE32.version
    isSetup,    \* LoRaE32.isSetup
    slots,      \* the pending asynchronous calls and where each one stands
    listeners,  \* the receive handlers attached to uart 'data', in order
    calls,      \* the number of calls the client has made so far
    wire,       \* bytes the device has sent that the UART has not yet notified
    fx,         \* the effects of the latest step, in program order
    last,       \* the latest call, continuation or notification and its outcome
    held,       \* the Config object the latest getConfig handed to the caller
    drain       \* the Drain on this connection: frames it was handed, events it emitted

vars == <<mode, m0, m1, config, version, isSetup, slots, listeners, wire, calls, fx, last,
          held, drain>>

IdleSlot ==
    [op |-> "none", pc |-> "idle", stage |-> "none", arg |-> NullConfig,
     len |-> 0, buf |-> <<>>, cursor |-> 0, rx |-> <<>>, first |-> <<>>,
     timer |-> 0]

\* effects: a UART write, a pin write, the assignment to this.mode, an emit('mode')
WriteFx(i, b) ==
    [k |-> "write", slot |-> i, bytes |-> b, pin |-> "none", level |-> 0, mode |-> "none"]
PinFx(p, l) ==
    [k |-> "pin", slot |-> 0, bytes |-> <<>>, pin |-> p, level |-> l, mode |-> "none"]
ModeFx(m) ==
    [k |-> "mode", slot |-> 0, bytes |-> <<>>, pin |-> "none", level |-> 0, mode |-> m]
EmitFx(m) ==
    [k |-> "emit", slot |-> 0, bytes |-> <<>>, pin |-> "none", level |-> 0, mode |-> m]

\* the record of a step: what ran, for which call, how it ended, what it
\* returned, and the stored configuration and version it started from
Last(act, i, op, outcome) ==
    [act |-> act, slot |-> i, op |-> op, outcome |-> outcome, cfg |-> NullConfig,
     ver |-> NullVersion, rx |-> <<>>, first |-> <<>>, buf |-> <<>>,
     arg |-> NullConfig, mode |-> "none", timer |-> 0,
     cfg0 |-> config, ver0 |-> version, addr |-> -1, data |-> <<>>]

\* the value a sequence of effects leaves on a pin, and in this.mode
RECURSIVE PinAfter(_, _, _)
PinAfter(e, p, old) ==
    IF e = <<>> THEN old
    ELSE PinAfter(Tail(e), p,
                  IF Head(e).k = "pin" /\ Head(e).pin = p THEN Head(e).level ELSE old)

RECURSIVE ModeAfter(_, _)
ModeAfter(e, old) ==
    IF e = <<>> THEN old
    ELSE ModeAfter(Tail(e), IF Head(e).k = "mode" THEN Head(e).mode ELSE old)

(* --------------------------- synchronous parts ------------------------- *)
\* setMode: the two digitalWrite calls, the assignment, the emit, in order
SetModeEffects(m) ==
    << PinFx("m0", ModeLevels(m)[1]), PinFx("m1", ModeLevels(m)[2]),
       ModeFx(m), EmitFx(m) >>

\* assertSleepMode as it would be if it rejected NORMAL only
AssertSleepModeOkNormalOnly(md) == md # NORMAL

\* assertSleepMode does not throw
AssertSleepModeOk(md) == md = SLEEP

\* assertReady does not throw: `this.isSetup == false` is false for undefined
AssertReadyOk(s) == s # "false"

\* receive(n): a zero-filled buffer of n bytes, cursor 0, handler attached
StartReceive(s, stage, n) ==
    [s EXCEPT !.pc = "recv", !.stage = stage, !.len = n,
              !.buf = [k \in 1..n |-> 0], !.cursor = 0, !.rx = <<>>]

\* the arrival log of a handler: the first MaxRx bytes handed to it
LogRx(rx, d) ==
    LET all == rx \o d IN
    IF Len(all) > MaxRx THEN SubSeq(all, 1, MaxRx) ELSE all

\* buf.set(data, cursor) throws RangeError when data does not fit
SetFits(s, d) == s.cursor + Len(d) <= s.len

\* buf.set(data, cursor)
BufSet(buf, d, cursor) ==
    [k \in 1..Len(buf) |->
        IF k > cursor /\ k <= cursor + Len(d) THEN d[k - cursor] ELSE buf[k]]

\* the handler receive() attaches, applied to one chunk
Handler(s, d) ==
    IF ~SetFits(s, d)
    THEN [s |-> [s EXCEPT !.rx = LogRx(s.rx, d)], thrown |-> TRUE]
    ELSE LET c == s.cursor + Len(d) IN
         [s |-> [s EXCEPT !.rx = LogRx(s.rx, d),
                          !.buf = BufSet(s.buf, d, s.cursor),
                          !.cursor = c,
                          !.pc = IF c >= s.len THEN "resolved" ELSE "recv"],
          thrown |-> FALSE]

\* uart emit('data', d): the handlers run in order; a throw ends the emit
RECURSIVE Emit(_, _, _)
Emit(ls, d, ss) ==
    IF ls = <<>> THEN [ss |-> ss, thrown |-> FALSE]
    ELSE LET r == Handler(ss[Head(ls)], d)
             nss == [ss EXCEPT ![Head(ls)] = r.s]
         IN IF r.thrown THEN [ss |-> nss, thrown |-> TRUE]
            ELSE Emit(Tail(ls), d, nss)

\* readParameters line 137 without the call of assert()
ReadParametersResultNoAssert(buf) == [ok |-> TRUE, cfg |-> ConfigFrom(buf)]

\* readParameters line 137: Config.from(result).assert()
ReadParametersResult(buf) ==
    [ok |-> ConfigAssertOk(ConfigFrom(buf)), cfg |-> ConfigFrom(buf)]

\* setConfig as it would be if it kept the caller's configuration
SetConfigAdoptInput(arg, buf) == arg

\* setConfig line 175: the configuration adopted after the echo
SetConfigAdopt(arg, buf) == ConfigFrom(buf)

\* readVersion line 196: the length check on the received buffer
VersionLengthOk(buf) == Len(buf) = VersionLength

\* a continuation is queued as a microtask
MicrotaskPending == \E i \in Slots : slots[i].pc \in {"microtask", "resolved"}

MayCall == calls < MaxCalls
HasFree == MayCall /\ \E i \in Slots : slots[i].op = "none"
FreeSlot == CHOOSE i \in Slots :
                slots[i].op = "none" /\ \A j \in Slots : j < i => slots[j].op # "none"

(* ------------------------- objects handed out -------------------------- *)
\* the caller holds no Config object yet
NoObject == [ref |-> "none", val |-> NullConfig]

\* getConfig as it would be if it returned this.config itself
GetConfigResultStored(cfg) == [ref |-> "stored", val |-> cfg]

\* getConfig line 143: Object.assign(new Config(), this.config) is a new
\* object that carries the fields of the stored one
GetConfigResult(cfg) == [ref |-> "copy", val |-> cfg]

\* this.config is assigned a new object: an object the caller holds is from
\* then on not the stored one
Detach(h) == IF h.ref = "stored" THEN [h EXCEPT !.ref = "copy"] ELSE h

\* fields a caller writes into a Config object it holds, and the values written
MutableFields == {"highAddress", "channel"}
MutationValues == {9}

\* the object after `obj[f] = v`
Assign(c, f, v) == [c EXCEPT ![f] = v]

\* new Address(config): the 16-bit address of a configuration
AddressOf(c) == c.highAddress * ByteRange + c.lowAddress

(* ----------------------- framed traffic and broadcast ------------------ *)
\* payloads a caller sends, and frames the Data-Link layer hands up: one
\* well-formed envelope and one whose length byte does not match
Payloads == {<<7>>, <<8, 9>>}
WellFormed == <<1, 7>>
Malformed == <<2, 7>>
InboundFrames == {WellFormed, Malformed}
LinkEvents == {"message", "error", "dropped"}

\* effects: a call of connection.send, of link.send, of link.write, and an
\* emit of event `ev` with payload b by the link, the controller, the
\* Broadcast or the Drain
ConnSendFx(b) == [k |-> "connSend", from |-> "caller", event |-> "none", bytes |-> b]
LinkSendFx(b) == [k |-> "linkSend", from |-> "controller", event |-> "none", bytes |-> b]
LinkWriteFx(b) == [k |-> "linkWrite", from |-> "controller", event |-> "none", bytes |-> b]
NotifyFx(src, ev, b) == [k |-> "notify", from |-> src, event |-> ev, bytes |-> b]

\* BroadcastPacket.toTypedArray(): a length byte, then the data
EnvelopeBytes(data) == <<Len(data)>> \o data

\* BroadcastPacket.from(msg): throws unless the length byte matches
EnvelopeFrom(b) ==
    IF Len(b) >= 1 /\ b[1] = Len(b) - 1
    THEN [ok |-> TRUE, data |-> Tail(b)]
    ELSE [ok |-> FALSE, data |-> <<>>]

\* send() as it would be if it were gated like the register operations
SendOkSleepOnly(md) == md = SLEEP

\* send() line 246: it throws when the recorded mode is SLEEP
SendOk(md) == md # SLEEP

\* LoRaE32.send(data): the gate, then link.send(data)
SendEffects(md, data) ==
    IF SendOk(md)
    THEN [fx |-> <<LinkSendFx(data)>>, thrown |-> FALSE]
    ELSE [fx |-> <<>>, thrown |-> TRUE]

\* Broadcast.send as it would be if it notified before it forwarded
BroadcastSendNotifyFirst(md, data) ==
    LET r == SendEffects(md, EnvelopeBytes(data)) IN
    [fx |-> <<NotifyFx("broadcast", "send", data), ConnSendFx(EnvelopeBytes(data))>> \o r.fx,
     thrown |-> r.thrown]

\* Broadcast.send as it would be if it notified in a finally block
BroadcastSendAlwaysNotify(md, data) ==
    LET r == SendEffects(md, EnvelopeBytes(data)) IN
    [fx |-> <<ConnSendFx(EnvelopeBytes(data))>> \o r.fx
              \o <<NotifyFx("broadcast", "send", data)>>,
     thrown |-> r.thrown]

\* Broadcast.send(data): connection.send(envelope bytes), then, when that
\* returned, emit('send', envelope)
BroadcastSendEffects(md, data) ==
    LET r == SendEffects(md, EnvelopeBytes(data)) IN
    [fx |-> <<ConnSendFx(EnvelopeBytes(data))>> \o r.fx
              \o (IF r.thrown THEN <<>> ELSE <<NotifyFx("broadcast", "send", data)>>),
     thrown |-> r.thrown]

\* the constructor's listeners as they would be if 'dropped' were re-emitted
\* as 'error'
ForwardDroppedAsError(ev) == IF ev = "dropped" THEN "error" ELSE ev

\* constructor lines 57-65: the event the controller emits for a link event
Forward(ev) == ev

\* the Drain's listener as it would be without try and catch
DrainOnMessageNoCatch(b) ==
    LET r == EnvelopeFrom(b) IN
    IF r.ok THEN <<NotifyFx("drain", "message", r.data)>> ELSE <<>>

\* the Drain's listener on the connection's 'message': parse, emit 'message';
\* when the parse throws, emit 'error'
DrainOnMessage(b) ==
    LET r == EnvelopeFrom(b) IN
    IF r.ok THEN <<NotifyFx("drain", "message", r.data)>>
    ELSE <<NotifyFx("drain", "error", b)>>

(* ------------------------------- Init ---------------------------------- *)
\* the constructor configures the pins as outputs and writes no level
Init ==
    /\ mode = SLEEP
    /\ m0 = NotDriven
    /\ m1 = NotDriven
    /\ config = NullConfig
    /\ version = NullVersion
    /\ isSetup = "undefined"
    /\ slots = [i \in Slots |-> IdleSlot]
    /\ listeners = <<>>
    /\ wire = <<>>
    /\ calls = 0
    /\ fx = <<>>
    /\ last = Last("new", 0, "constructor", "ok")
    /\ held = NoObject
    /\ drain = [seen |-> 0, log |-> <<>>]

(* ------------------------------ actions -------------------------------- *)
Pins(e) ==
    /\ m0' = PinAfter(e, "m0", m0)
    /\ m1' = PinAfter(e, "m1", m1)
    /\ mode' = ModeAfter(e, mode)

\* setMode(m)
SetMode(m) ==
    /\ MayCall
    /\ calls' = calls + 1
    /\ fx' = SetModeEffects(m)
    /\ Pins(fx')
    /\ last' = [Last("setMode", 0, "setMode", "ok") EXCEPT !.mode = m]
    /\ UNCHANGED <<config, version, isSetup, slots, listeners, wire>>
    /\ UNCHANGED <<held, drain>>

\* getConfig()
GetConfig ==
    /\ MayCall
    /\ calls' = calls + 1
    /\ last' = IF AssertReadyOk(isSetup)
               THEN [Last("getConfig", 0, "getConfig", "ok") EXCEPT !.cfg = config]
               ELSE Last("getConfig", 0, "getConfig", "NotReady")
    /\ held' = IF AssertReadyOk(isSetup) THEN GetConfigResult(config) ELSE held
    /\ fx' = <<>>
    /\ UNCHANGED <<mode, m0, m1, config, version, isSetup, slots, listeners, wire, drain>>

\* getAddress()
GetAddress ==
    /\ MayCall
    /\ calls' = calls + 1
    /\ last' = IF ~AssertReadyOk(isSetup)
               THEN Last("getAddress", 0, "getAddress", "NotReady")
               ELSE IF config = NullConfig
               THEN Last("getAddress", 0, "getAddress", "TypeError")
               ELSE [Last("getAddress", 0, "getAddress", "ok")
                        EXCEPT !.addr = AddressOf(config)]
    /\ fx' = <<>>
    /\ UNCHANGED <<mode, m0, m1, config, version, isSetup, slots, listeners, wire,
                   held, drain>>

\* the caller writes a field of the Config object getConfig returned to it
Mutate(f, v) ==
    /\ held.ref # "none"
    /\ held.val[f] # v
    /\ held' = [held EXCEPT !.val = Assign(held.val, f, v)]
    /\ config' = IF held.ref = "stored" THEN Assign(config, f, v) ELSE config
    /\ last' = [Last("mutate", 0, "caller", "ok") EXCEPT !.cfg = held'.val]
    /\ fx' = <<>>
    /\ UNCHANGED <<calls, mode, m0, m1, version, isSetup, slots, listeners, wire, drain>>

\* getVersion()
GetVersion ==
    /\ MayCall
    /\ calls' = calls + 1
    /\ last' = IF AssertReadyOk(isSetup)
               THEN [Last("getVersion", 0, "getVersion", "ok") EXCEPT !.ver = version]
               ELSE Last("getVersion", 0, "getVersion", "NotReady")
    /\ fx' = <<>>
    /\ UNCHANGED <<mode, m0, m1, config, version, isSetup, slots, listeners, wire>>
    /\ UNCHANGED <<held, drain>>

\* getMode()
GetMode ==
    /\ MayCall
    /\ calls' = calls + 1
    /\ last' = IF AssertReadyOk(isSetup)
               THEN [Last("getMode", 0, "getMode", "ok") EXCEPT !.mode = mode]
               ELSE Last("getMode", 0, "getMode", "NotReady")
    /\ fx' = <<>>
    /\ UNCHANGED <<mode, m0, m1, config, version, isSetup, slots, listeners, wire>>
    /\ UNCHANGED <<held, drain>>

\* send(data)
Send(data) ==
    /\ MayCall
    /\ calls' = calls + 1
    /\ fx' = SendEffects(mode, data).fx
    /\ last' = [Last("send", 0, "send",
                     IF SendEffects(mode, data).thrown THEN "IllegalOperationError" ELSE "ok")
                   EXCEPT !.data = data]
    /\ UNCHANGED <<mode, m0, m1, config, version, isSetup, slots, listeners, wire,
                   held, drain>>

\* write(data)
Write(data) ==
    /\ MayCall
    /\ calls' = calls + 1
    /\ fx' = <<LinkWriteFx(data)>>
    /\ last' = [Last("write", 0, "write", "ok") EXCEPT !.data = data]
    /\ UNCHANGED <<mode, m0, m1, config, version, isSetup, slots, listeners, wire,
                   held, drain>>

\* Broadcast.send(data) on a Broadcast whose connection is this controller
BroadcastSend(data) ==
    /\ MayCall
    /\ calls' = calls + 1
    /\ fx' = BroadcastSendEffects(mode, data).fx
    /\ last' = [Last("broadcastSend", 0, "Broadcast.send",
                     IF BroadcastSendEffects(mode, data).thrown
                     THEN "IllegalOperationError" ELSE "ok")
                   EXCEPT !.data = data]
    /\ UNCHANGED <<mode, m0, m1, config, version, isSetup, slots, listeners, wire,
                   held, drain>>

\* the Data-Link layer emits an event: the controller's listener re-emits it,
\* and a 'message' reaches the Drain's listener on the controller
LinkEmits(ev, b) ==
    /\ MayCall
    /\ calls' = calls + 1
    /\ LET d == IF Forward(ev) = "message" THEN DrainOnMessage(b) ELSE <<>> IN
       /\ fx' = <<NotifyFx("link", ev, b), NotifyFx("controller", Forward(ev), b)>> \o d
       /\ drain' = IF Forward(ev) = "message"
                   THEN [seen |-> drain.seen + 1,
                         log |-> drain.log \o [k \in 1..Len(d) |-> d[k].event]]
                   ELSE drain
    /\ last' = [Last("linkEvent", 0, ev, "ok") EXCEPT !.data = b]
    /\ UNCHANGED <<mode, m0, m1, config, version, isSetup, slots, listeners, wire, held>>

\* the device answers the bytes written to it
Answer(cmd) ==
    \E r \in DeviceReplies(cmd) :
        /\ Len(wire) + Len(r) <= MaxWire
        /\ wire' = wire \o r

\* the synchronous head shared by the register operations: assertSleepMode,
\* then uart.write(cmd), then either receive(n) or wait(SettleDelay)
Begin(i, act, op, arg, cmd, stage, n) ==
    IF ~AssertSleepModeOk(mode)
    THEN /\ fx' = <<>>
         /\ slots' = [slots EXCEPT ![i] = IdleSlot]
         /\ listeners' = listeners
         /\ wire' = wire
         /\ last' = [Last(act, i, op, "IllegalOperationError")
                        EXCEPT !.arg = arg, !.timer = slots[i].timer]
    ELSE /\ fx' = <<WriteFx(i, cmd)>>
         /\ slots' = [slots EXCEPT ![i] =
                IF stage = "delay"
                THEN [IdleSlot EXCEPT !.op = op, !.pc = "wait", !.stage = stage,
                                      !.timer = SettleDelay]
                ELSE StartReceive([IdleSlot EXCEPT !.op = op, !.arg = arg], stage, n)]
         /\ listeners' = IF stage = "delay" THEN listeners ELSE Append(listeners, i)
         /\ Answer(cmd)
         /\ last' = [Last(act, i, op, "pending")
                        EXCEPT !.arg = arg, !.timer = slots[i].timer]

\* setup(): setMode(SLEEP) runs at once, the rest after the await
CallSetup ==
    /\ HasFree
    /\ calls' = calls + 1
    /\ fx' = SetModeEffects(SLEEP)
    /\ Pins(fx')
    /\ slots' = [slots EXCEPT ![FreeSlot] =
                    [IdleSlot EXCEPT !.op = "setup", !.pc = "microtask", !.stage = "mode"]]
    /\ last' = Last("setup", FreeSlot, "setup", "pending")
    /\ UNCHANGED <<config, version, isSetup, listeners, wire>>
    /\ UNCHANGED <<held, drain>>

\* setup() line 70: the call of readParameters
SetupReadParameters(i) ==
    /\ slots[i].op = "setup" /\ slots[i].pc = "microtask"
    /\ Begin(i, "setupReadParameters", "setup", NullConfig, PACKET_GET_CONFIG, "cfg", ConfigLength)
    /\ UNCHANGED <<calls, mode, m0, m1, config, version, isSetup>>
    /\ UNCHANGED <<held, drain>>

\* readParameters() called on its own
CallReadParameters ==
    /\ HasFree
    /\ calls' = calls + 1
    /\ Begin(FreeSlot, "readParameters", "readParameters", NullConfig,
             PACKET_GET_CONFIG, "cfg", ConfigLength)
    /\ UNCHANGED <<mode, m0, m1, config, version, isSetup>>
    /\ UNCHANGED <<held, drain>>

\* setConfig(c)
CallSetConfig(c) ==
    /\ HasFree
    /\ calls' = calls + 1
    /\ Begin(FreeSlot, "setConfig", "setConfig", c, ConfigBytes(c), "echo", ConfigLength)
    /\ UNCHANGED <<mode, m0, m1, config, version, isSetup>>
    /\ UNCHANGED <<held, drain>>

\* resetConfig()
CallResetConfig ==
    /\ HasFree
    /\ calls' = calls + 1
    /\ Begin(FreeSlot, "resetConfig", "resetConfig", NullConfig, PACKET_RESET, "delay", 0)
    /\ UNCHANGED <<mode, m0, m1, config, version, isSetup>>
    /\ UNCHANGED <<held, drain>>

\* readVersion() called on its own
CallReadVersion ==
    /\ HasFree
    /\ calls' = calls + 1
    /\ Begin(FreeSlot, "readVersion", "readVersion", NullConfig,
             PACKET_GET_VERSION, "ver", VersionLength)
    /\ UNCHANGED <<mode, m0, m1, config, version, isSetup>>
    /\ UNCHANGED <<held, drain>>

\* a pending call ends: its slot is released
Finish(i, l) ==
    /\ slots' = [slots EXCEPT ![i] = IdleSlot]
    /\ last' = l

\* setup() lines 70-71 after readParameters has settled: when it threw, setup
\* rejects; otherwise this.config is assigned and readVersion is called
SetupContinue(i, ok, cfg) ==
    /\ slots[i].op = "setup" /\ slots[i].pc = "resolved" /\ slots[i].stage = "cfg"
    /\ IF ~ok
       THEN /\ Finish(i, [Last("setupAfterCfg", i, "setup", "BadHeader")
                             EXCEPT !.first = slots[i].rx, !.buf = slots[i].buf])
            /\ fx' = <<>>
            /\ UNCHANGED <<config, listeners, wire, held>>
       ELSE /\ config' = cfg
            /\ held' = Detach(held)
            /\ IF ~AssertSleepModeOk(mode)
               THEN /\ Finish(i, [Last("setupAfterCfg", i, "setup", "IllegalOperationError")
                                     EXCEPT !.first = slots[i].rx, !.buf = slots[i].buf])
                    /\ fx' = <<>>
                    /\ UNCHANGED <<listeners, wire>>
               ELSE /\ fx' = <<WriteFx(i, PACKET_GET_VERSION)>>
                    /\ slots' = [slots EXCEPT ![i] =
                           [StartReceive(slots[i], "ver", VersionLength)
                               EXCEPT !.first = slots[i].rx]]
                    /\ listeners' = Append(listeners, i)
                    /\ Answer(PACKET_GET_VERSION)
                    /\ last' = [Last("setupAfterCfg", i, "setup", "pending")
                                   EXCEPT !.first = slots[i].rx, !.buf = slots[i].buf]
    /\ UNCHANGED <<calls, mode, m0, m1, version, isSetup, drain>>

\* setup() as it would be if a failed readParameters were swallowed and
\* readVersion called all the same
SetupAfterCfgSwallowed(i) ==
    LET r == ReadParametersResult(slots[i].buf) IN
    SetupContinue(i, TRUE, IF r.ok THEN r.cfg ELSE config)

\* setup() lines 70-71: readParameters resolves, this.config is assigned,
\* then readVersion is called
SetupAfterCfg(i) ==
    LET r == ReadParametersResult(slots[i].buf) IN
    SetupContinue(i, r.ok, r.cfg)

\* setup() line 71-72: readVersion resolves, this.version is assigned
SetupAfterVer(i) ==
    /\ slots[i].op = "setup" /\ slots[i].pc = "resolved" /\ slots[i].stage = "ver"
    /\ IF ~VersionLengthOk(slots[i].buf)
       THEN /\ Finish(i, Last("setupAfterVer", i, "setup", "TypeError"))
            /\ UNCHANGED version
       ELSE /\ version' = VersionFrom(slots[i].buf)
            /\ Finish(i, [Last("setupAfterVer", i, "setup", "ok")
                             EXCEPT !.rx = slots[i].rx, !.first = slots[i].first,
                                    !.buf = slots[i].buf,
                                    !.ver = VersionFrom(slots[i].buf)])
    /\ fx' = <<>>
    /\ UNCHANGED <<calls, mode, m0, m1, config, isSetup, listeners, wire>>
    /\ UNCHANGED <<held, drain>>

\* readParameters() lines 136-137, called on its own
ReadParametersDone(i) ==
    /\ slots[i].op = "readParameters" /\ slots[i].pc = "resolved"
    /\ LET r == ReadParametersResult(slots[i].buf) IN
       Finish(i, [Last("readParametersDone", i, "readParameters",
                       IF r.ok THEN "ok" ELSE "BadHeader")
                     EXCEPT !.rx = slots[i].rx, !.buf = slots[i].buf,
                            !.cfg = IF r.ok THEN r.cfg ELSE NullConfig])
    /\ fx' = <<>>
    /\ UNCHANGED <<calls, mode, m0, m1, config, version, isSetup, listeners, wire>>
    /\ UNCHANGED <<held, drain>>

\* setConfig() line 175: the echo resolves and is adopted
SetConfigDone(i) ==
    /\ slots[i].op = "setConfig" /\ slots[i].pc = "resolved"
    /\ config' = SetConfigAdopt(slots[i].arg, slots[i].buf)
    /\ held' = Detach(held)
    /\ Finish(i, [Last("setConfigDone", i, "setConfig", "ok")
                     EXCEPT !.rx = slots[i].rx, !.buf = slots[i].buf,
                            !.arg = slots[i].arg])
    /\ fx' = <<>>
    /\ UNCHANGED <<calls, mode, m0, m1, version, isSetup, listeners, wire, drain>>

\* resetConfig() as it would be without `await wait(50)`
ResetResumeNoDelay(i) ==
    /\ slots[i].op = "resetConfig" /\ slots[i].pc = "wait"
    /\ ~MicrotaskPending
    /\ Begin(i, "resetReadParameters", "resetConfig", NullConfig,
             PACKET_GET_CONFIG, "cfg", ConfigLength)
    /\ UNCHANGED <<calls, mode, m0, m1, config, version, isSetup>>
    /\ UNCHANGED <<held, drain>>

\* resetConfig() lines 185-187: the settle delay is over, readParameters is called
ResetResume(i) ==
    /\ slots[i].op = "resetConfig" /\ slots[i].pc = "wait"
    /\ slots[i].timer = 0
    /\ ~MicrotaskPending
    /\ Begin(i, "resetReadParameters", "resetConfig", NullConfig,
             PACKET_GET_CONFIG, "cfg", ConfigLength)
    /\ UNCHANGED <<calls, mode, m0, m1, config, version, isSetup>>
    /\ UNCHANGED <<held, drain>>

\* resetConfig() line 187: readParameters resolves, this.config is assigned
ResetAfterCfg(i) ==
    /\ slots[i].op = "resetConfig" /\ slots[i].pc = "resolved"
    /\ LET r == ReadParametersResult(slots[i].buf) IN
       /\ config' = IF r.ok THEN r.cfg ELSE config
       /\ held' = IF r.ok THEN Detach(held) ELSE held
       /\ Finish(i, [Last("resetAfterCfg", i, "resetConfig",
                          IF r.ok THEN "ok" ELSE "BadHeader")
                        EXCEPT !.rx = slots[i].rx, !.buf = slots[i].buf])
    /\ fx' = <<>>
    /\ UNCHANGED <<calls, mode, m0, m1, version, isSetup, listeners, wire, drain>>

\* readVersion() lines 195-208, called on its own
ReadVersionDone(i) ==
    /\ slots[i].op = "readVersion" /\ slots[i].pc = "resolved"
    /\ Finish(i, IF VersionLengthOk(slots[i].buf)
                 THEN [Last("readVersionDone", i, "readVersion", "ok")
                          EXCEPT !.rx = slots[i].rx, !.buf = slots[i].buf,
                                 !.ver = VersionFrom(slots[i].buf)]
                 ELSE [Last("readVersionDone", i, "readVersion", "TypeError")
                          EXCEPT !.rx = slots[i].rx, !.buf = slots[i].buf])
    /\ fx' = <<>>
    /\ UNCHANGED <<calls, mode, m0, m1, config, version, isSetup, listeners, wire>>
    /\ UNCHANGED <<held, drain>>

\* time passes for the calls inside wait(SettleDelay)
Tick ==
    /\ ~MicrotaskPending
    /\ \E i \in Slots : slots[i].pc = "wait" /\ slots[i].timer > 0
    /\ slots' = [i \in Slots |->
                    IF slots[i].pc = "wait"
                    THEN [slots[i] EXCEPT !.timer =
                             IF @ > Quantum THEN @ - Quantum ELSE 0]
                    ELSE slots[i]]
    /\ fx' = <<>>
    /\ last' = Last("tick", 0, "timer", "ok")
    /\ UNCHANGED <<calls, mode, m0, m1, config, version, isSetup, listeners, wire>>
    /\ UNCHANGED <<held, drain>>

\* the UART notifies 'data' with one chunk
Deliver(n) ==
    /\ ~MicrotaskPending
    /\ n <= Len(wire)
    /\ wire' = SubSeq(wire, n + 1, Len(wire))
    /\ LET r == Emit(listeners, SubSeq(wire, 1, n), slots) IN
       /\ slots' = r.ss
       /\ listeners' = SelectSeq(listeners, LAMBDA i : r.ss[i].pc = "recv")
       /\ last' = Last("data", 0, "uart", IF r.thrown THEN "RangeError" ELSE "ok")
    /\ fx' = <<>>
    /\ UNCHANGED <<calls, mode, m0, m1, config, version, isSetup>>
    /\ UNCHANGED <<held, drain>>

Next ==
    \/ \E m \in Mode : SetMode(m)
    \/ GetConfig
    \/ GetAddress
    \/ \E f \in MutableFields, v \in MutationValues : Mutate(f, v)
    \/ GetVersion
    \/ GetMode
    \/ \E d \in Payloads : Send(d)
    \/ \E d \in Payloads : Write(d)
    \/ \E d \in Payloads : BroadcastSend(d)
    \/ \E ev \in LinkEvents, b \in InboundFrames : LinkEmits(ev, b)
    \/ CallSetup
    \/ \E i \in Slots : SetupReadParameters(i)
    \/ CallReadParameters
    \/ \E c \in ArgConfigs : CallSetConfig(c)
    \/ CallResetConfig
    \/ CallReadVersion
    \/ \E i \in Slots : SetupAfterCfg(i)
    \/ \E i \in Slots : SetupAfterVer(i)
    \/ \E i \in Slots : ReadParametersDone(i)
    \/ \E i \in Slots : SetConfigDone(i)
    \/ \E i \in Slots : ResetResume(i)
    \/ \E i \in Slots : ResetAfterCfg(i)
    \/ \E i \in Slots : ReadVersionDone(i)
    \/ Tick
    \/ \E n \in 1..MaxChunk : Deliver(n)

Spec == Init /\ [][Next]_vars

(* ============================== claims ================================== *)
\* the steps that call a register operation unconditionally
RegisterCalls ==
    {"readParameters", "setConfig", "resetConfig", "readVersion",
     "setupReadParameters", "resetReadParameters"}

\* the effects of the latest step that are UART writes
Writes == SelectSeq(fx, LAMBDA e : e.k = "write")

\* C1: a register operation (readParameters, setConfig, resetConfig,
\* readVersion, also when setup or resetConfig calls readParameters) that is
\* called while the recorded mode is NORMAL, WAKE_UP or POWER_SAVING fails with
\* the illegal-operation error, writes nothing to the UART, attaches no
\* listener and leaves no call pending.
C1_NotSleepRejected ==
    (last.act \in RegisterCalls /\ mode # SLEEP) =>
        /\ last.outcome = "IllegalOperationError"
        /\ Writes = <<>>
        /\ slots[last.slot].op = "none"
        /\ \A k \in 1..Len(listeners) : listeners[k] # last.slot

C1_Witness ==
    /\ last.act = "readVersion"
    /\ mode = WAKE_UP
    /\ last.outcome = "IllegalOperationError"

\* C2: getConfig and getVersion fail with NotReady whenever setup() has not
\* completed successfully (this.version is assigned only by a successful
\* setup, so it is still null in exactly those states).
C2_NotReadyBeforeSetup ==
    (last.act \in {"getConfig", "getVersion"} /\ version = NullVersion) =>
        last.outcome = "NotReady"

\* C3: when setup() completes successfully the recorded mode is SLEEP, the
\* stored configuration is the parse of the six bytes replied to the
\* read-config command, the stored version is the four bytes replied to the
\* read-version command, and the controller is marked ready.
C3_SetupMarksReady ==
    (last.act = "setupAfterVer" /\ last.outcome = "ok") =>
        /\ mode = SLEEP
        /\ Len(last.first) = ConfigLength => config = ConfigFrom(last.first)
        /\ Len(last.rx) = VersionLength => version = VersionFrom(last.rx)
        /\ isSetup = "true"

\* C5: after setMode(m) the lines (M0, M1) hold NORMAL=(0,0), WAKE_UP=(1,0),
\* POWER_SAVING=(0,1), SLEEP=(1,1) for m, the recorded mode is m, exactly one
\* 'mode' notification carrying m was emitted, and the step's effects are, in
\* this order: M0 written, M1 written, this.mode assigned, the notification.
C5_SetModeDrivesLines ==
    (last.act = "setMode") =>
        /\ <<m0, m1>> = (CASE last.mode = NORMAL -> <<0, 0>>
                           [] last.mode = WAKE_UP -> <<1, 0>>
                           [] last.mode = POWER_SAVING -> <<0, 1>>
                           [] last.mode = SLEEP -> <<1, 1>>)
        /\ mode = last.mode
        /\ Len(SelectSeq(fx, LAMBDA e : e.k = "emit")) = 1
        /\ Len(fx) = 4
        /\ fx[1].k = "pin" /\ fx[1].pin = "m0" /\ fx[1].level = m0
        /\ fx[2].k = "pin" /\ fx[2].pin = "m1" /\ fx[2].level = m1
        /\ fx[3].k = "mode" /\ fx[3].mode = last.mode
        /\ fx[4].k = "emit" /\ fx[4].mode = last.mode

\* setMode(WAKE_UP) was called twice in a row: the second call leaves the mode
\* as it was and still notifies
C5_Witness ==
    /\ last.act = "setMode"
    /\ last.mode = WAKE_UP
    /\ calls = 2
    /\ <<m0, m1>> = <<1, 0>>
    /\ Len(fx) = 4

Errors == {"IllegalOperationError", "BadHeader", "TypeError"}

\* C4: setup() fails when a sub-read fails; it writes the read-version command
\* only in the step that follows the six reply bytes of the config read, and
\* only when they validate; when the config read fails on a bad header the
\* read-version command is not written and the stored configuration and
\* version keep the values they had.
C4_SetupOrdered ==
    /\ (last.op = "setup" /\ last.outcome \in Errors) =>
           /\ slots[last.slot].op = "none"
           /\ version = last.ver0
    /\ (last.op = "setup"
        /\ \E k \in 1..Len(Writes) : Writes[k].bytes = PACKET_GET_VERSION) =>
           /\ last.act = "setupAfterCfg"
           /\ Len(last.first) >= ConfigLength
           /\ last.buf[1] = HeaderSentinel
           /\ config = ConfigFrom(last.buf)
    /\ (last.act = "setupAfterCfg" /\ last.buf[1] # HeaderSentinel) =>
           /\ last.outcome = "BadHeader"
           /\ Writes = <<>>
           /\ config = last.cfg0
           /\ version = last.ver0

\* a second setup() fails on a bad header after a first one had succeeded
C4_Witness ==
    /\ last.act = "setupAfterCfg"
    /\ last.outcome = "BadHeader"
    /\ config # NullConfig
    /\ version # NullVersion

\* C6: when setConfig(cfg) completes, the stored configuration is the parse of
\* the six bytes that arrived as the echo, whatever cfg was, and getConfig
\* returns the stored configuration.
C6_EchoAdopted ==
    /\ (last.act = "setConfigDone" /\ Len(last.rx) = ConfigLength) =>
           /\ last.outcome = "ok"
           /\ config = ConfigFrom(last.rx)
    /\ (last.act = "getConfig" /\ last.outcome = "ok") => last.cfg = config

\* getConfig returns the register image the device echoed, which no caller
\* passed to setConfig
C6_Witness ==
    /\ last.act = "getConfig"
    /\ last.cfg = ConfigFrom(ClampedFrame)
    /\ last.cfg \notin ArgConfigs

\* C7: a config read whose six reply bytes start with a header other than the
\* sentinel fails with the bad-header error and leaves the stored
\* configuration as it was; the stored configuration changes only in the step
\* that completes a validated read or a write-then-echo cycle.
C7_BadHeaderKeepsConfig ==
    /\ (last.act \in {"setupAfterCfg", "resetAfterCfg", "readParametersDone"}
        /\ last.buf[1] # HeaderSentinel) =>
           /\ last.outcome = "BadHeader"
           /\ config = last.cfg0
    /\ (config # last.cfg0) =>
           \/ /\ last.act \in {"setupAfterCfg", "resetAfterCfg"}
              /\ last.outcome # "BadHeader"
              /\ last.buf[1] = HeaderSentinel
              /\ config = ConfigFrom(last.buf)
           \/ /\ last.act = "setConfigDone"
              /\ config = ConfigFrom(last.buf)

\* resetConfig reads a bad header back while a configuration is stored
C7_Witness ==
    /\ last.act = "resetAfterCfg"
    /\ last.outcome = "BadHeader"
    /\ config # NullConfig
    /\ config = last.cfg0

\* the steps a pending call can take by itself
SlotStep(i) ==
    \/ SetupReadParameters(i)
    \/ SetupAfterCfg(i)
    \/ SetupAfterVer(i)
    \/ ReadParametersDone(i)
    \/ SetConfigDone(i)
    \/ ResetResume(i)
    \/ ResetAfterCfg(i)
    \/ ReadVersionDone(i)

\* C8: the wait of a config read for its six reply bytes is bounded by a
\* receive timeout: a call that waits for config bytes while no byte is on its
\* way has a deadline running on its timer, or can take a step of its own
\* that ends the wait.
C8_ReceiveBounded ==
    \A i \in Slots :
        (slots[i].pc = "recv" /\ slots[i].stage = "cfg" /\ wire = <<>>) =>
            \/ slots[i].timer > 0
            \/ ENABLED SlotStep(i)

\* C9: a version read that is handed more than four reply bytes fails with the
\* wrong-length error: it is not left pending and it does not succeed.
C9_WrongLengthFails ==
    /\ \A i \in Slots :
           (slots[i].stage = "ver" /\ slots[i].pc \in {"recv", "resolved"}) =>
               Len(slots[i].rx) <= VersionLength
    /\ (last.act \in {"readVersionDone", "setupAfterVer"}
        /\ Len(last.rx) # VersionLength) => last.outcome = "TypeError"

\* C10: resetConfig writes the reset command and starts the settle delay; it
\* attaches no listener and writes no read-config command while the delay
\* runs; it writes the read-config command only once the delay has elapsed and
\* the mode is still SLEEP; when the mode has left SLEEP by then it fails with
\* the illegal-operation error, writes nothing more and leaves the stored
\* configuration as it was; a read that validates is adopted.
C10_ResetOrdered ==
    /\ (last.act = "resetConfig" /\ last.outcome = "pending") =>
           /\ Writes = <<WriteFx(last.slot, PACKET_RESET)>>
           /\ slots[last.slot].pc = "wait"
           /\ slots[last.slot].timer = SettleDelay
    /\ \A i \in Slots :
           (slots[i].op = "resetConfig" /\ slots[i].pc = "wait") =>
               \A k \in 1..Len(listeners) : listeners[k] # i
    /\ (last.op = "resetConfig"
        /\ \E k \in 1..Len(Writes) : Writes[k].bytes = PACKET_GET_CONFIG) =>
           /\ last.act = "resetReadParameters"
           /\ last.timer = 0
           /\ mode = SLEEP
    /\ (last.act = "resetReadParameters" /\ mode # SLEEP) =>
           /\ last.outcome = "IllegalOperationError"
           /\ Writes = <<>>
           /\ config = last.cfg0
           /\ slots[last.slot].op = "none"
    /\ (last.act = "resetAfterCfg" /\ last.outcome = "ok") =>
           /\ last.buf[1] = HeaderSentinel
           /\ config = ConfigFrom(last.buf)

\* the mode left SLEEP during the settle delay
C10_Witness ==
    /\ last.act = "resetReadParameters"
    /\ last.outcome = "IllegalOperationError"
    /\ last.timer = 0
    /\ mode = NORMAL

\* C11: getConfig returns a copy: a write the caller makes to a field of the
\* returned object leaves the stored configuration as it was, the object
\* getConfig returns carries the stored fields, and getAddress returns the
\* address of the stored configuration, so later results do not change.
C11_DefensiveCopy ==
    /\ (last.act = "mutate") =>
           /\ config = last.cfg0
           /\ held.val = last.cfg
    /\ (last.act = "getConfig" /\ last.outcome = "ok") =>
           /\ held.val = config
           /\ last.cfg = config
    /\ (last.act = "getAddress" /\ last.outcome = "ok") =>
           last.addr = config.highAddress * 256 + config.lowAddress

\* the caller has overwritten a field of the copy of a configuration that was
\* read from the device
C11_Witness ==
    /\ last.act = "mutate"
    /\ config = ConfigFrom(GoodFrame)
    /\ held.val.highAddress = 9
    /\ config.highAddress = 0

\* the effects of the latest step of one kind, and the notifications one
\* emitter made in it
FxOf(kind) == SelectSeq(fx, LAMBDA e : e.k = kind)
NotesOf(src) == SelectSeq(fx, LAMBDA e : e.k = "notify" /\ e.from = src)

\* every call of connection.send in the latest step precedes every
\* notification of the Broadcast
ForwardFirst ==
    \A i, j \in 1..Len(fx) :
        (fx[i].k = "connSend" /\ fx[j].k = "notify" /\ fx[j].from = "broadcast") => i < j

C13_DrainOneEventPerFrame ==
    /\ Len(drain.log) = drain.seen
    /\ (last.act = "linkEvent" /\ last.op = "message") =>
           /\ Len(NotesOf("drain")) = 1
           /\ IF EnvelopeFrom(last.data).ok
              THEN NotesOf("drain")[1] =
                       NotifyFx("drain", "message", EnvelopeFrom(last.data).data)
              ELSE NotesOf("drain")[1].event = "error"
    /\ (last.act = "linkEvent" /\ last.op # "message") => NotesOf("drain") = <<>>

\* a well-formed envelope arrives after a malformed one and is emitted
C13_Witness ==
    /\ drain.log = <<"error", "message">>
    /\ last.act = "linkEvent"
    /\ last.data = WellFormed
    /\ NotesOf("drain") = <<NotifyFx("drain", "message", <<7>>)>>

\* C14: receive(N) completes exactly when N bytes have been handed to its
\* handler, whatever the chunks; its result is then the first N bytes handed
\* to it, and its handler is detached.
C14_ChunkingInvariant ==
    \A i \in Slots :
        (slots[i].pc \in {"recv", "resolved"}) =>
            /\ (slots[i].pc = "resolved") <=> (Len(slots[i].rx) >= slots[i].len)
            /\ (slots[i].pc = "resolved") =>
                   /\ slots[i].buf = SubSeq(slots[i].rx, 1, slots[i].len)
                   /\ \A k \in 1..Len(listeners) : listeners[k] # i

\* C15: a raw receive handler is attached to the UART only while the recorded
\* mode is SLEEP.
C15_RawOnlyInSleep == (listeners # <<>>) => (mode = SLEEP)

\* C16: for every event of the Data-Link layer the controller emits exactly
\* one event, of the same name and with the same payload, right after it; the
\* controller emits 'message', 'error' or 'dropped' in no other step.
C16_EventsForwarded ==
    /\ (last.act = "linkEvent") =>
           /\ fx[1] = NotifyFx("link", last.op, last.data)
           /\ fx[2] = NotifyFx("controller", last.op, last.data)
           /\ Len(NotesOf("controller")) = 1
           /\ Len(NotesOf("link")) = 1
    /\ (NotesOf("controller") # <<>>) => last.act = "linkEvent"

\* the link reports a drop while the controller is in NORMAL mode
C16_Witness ==
    /\ last.act = "linkEvent"
    /\ last.op = "dropped"
    /\ mode = NORMAL
    /\ NotesOf("controller") = <<NotifyFx("controller", "dropped", Malformed)>>

\* C17: send(data) throws the illegal-operation error and forwards nothing
\* exactly when the recorded mode is SLEEP; in the other three modes it calls
\* the link's send once with data; write(data) calls the link's write once
\* with data in every mode.
C17_SendGated ==
    /\ (last.act = "send" /\ mode = SLEEP) =>
           /\ last.outcome = "IllegalOperationError"
           /\ fx = <<>>
    /\ (last.act = "send" /\ mode \in {NORMAL, WAKE_UP, POWER_SAVING}) =>
           /\ last.outcome = "ok"
           /\ fx = <<LinkSendFx(last.data)>>
    /\ (last.act = "write") =>
           /\ last.outcome = "ok"
           /\ fx = <<LinkWriteFx(last.data)>>

\* send goes through in WAKE_UP mode
C17_Witness ==
    /\ last.act = "send"
    /\ mode = WAKE_UP
    /\ last.outcome = "ok"
    /\ fx = <<LinkSendFx(<<7>>)>>

\* C18: in every state, the one after construction included, the levels on
\* (M0, M1) are those of the recorded mode.
C18_LinesMatchMode ==
    <<m0, m1>> = (CASE mode = NORMAL -> <<LOW, LOW>>
                    [] mode = WAKE_UP -> <<HIGH, LOW>>
                    [] mode = POWER_SAVING -> <<LOW, HIGH>>
                    [] mode = SLEEP -> <<HIGH, HIGH>>)

\* C19: at most one raw receive handler is attached to the UART at any time.
C19_OneRawListener == Len(listeners) <= 1

\* C20: Broadcast.send throws exactly when the controller's send throws, that
\* is in SLEEP mode; it then emits no 'send' notification and hands nothing to
\* the Data-Link layer; in every call the number of 'send' notifications is
\* the number of envelopes handed to the Data-Link layer.
C20_NotifyOnlyAccepted ==
    (last.act = "broadcastSend") =>
        /\ (last.outcome = "IllegalOperationError") <=> (mode = SLEEP)
        /\ (last.outcome = "IllegalOperationError") =>
               /\ NotesOf("broadcast") = <<>>
               /\ FxOf("linkSend") = <<>>
        /\ Len(NotesOf("broadcast")) = Len(FxOf("linkSend"))

\* a broadcast is refused in SLEEP mode after the mode was set explicitly
C20_Witness ==
    /\ last.act = "broadcastSend"
    /\ last.outcome = "IllegalOperationError"
    /\ mode = SLEEP
    /\ m0 = HIGH
    /\ fx = <<ConnSendFx(<<1, 7>>)>>

====
